---- MODULE Spec2Model ----
(***************************************************************************)
(* Model of scripts/verify-slo.py: the SLOVerifier checks (availability,   *)
(* p95 latency, error rate), their aggregation in verify_all_slos and the  *)
(* exit code of main.                                                      *)
(*                                                                         *)
(* Numbers.  The script computes on floats.  Here every metric value is an *)
(* exact rational <<n, d>> with d > 0 (99.95 is <<9995, 100>>), request    *)
(* counts are naturals, and comparisons are exact; floating-point rounding *)
(* is outside the model.  None is the empty tuple <<>>.                    *)
(*                                                                         *)
(* Backend.  A get_metric_statistics call either raises ("raise"), returns *)
(* a payload without the 'Datapoints' key ("malformed", a KeyError when    *)
(* the check reads it), or returns a list of datapoints ("ok").  The       *)
(* 'message' field of a result and the printed lines are not modelled.     *)
(***************************************************************************)
EXTENDS Integers, Sequences, FiniteSets, TLC

VARIABLES
    pc,          \* where the process is, from main to sys.exit
    argv,        \* the command line: the --environment value, "" or "-h"
    self,        \* SLOVerifier.environment, "" before construction
    last_call,   \* the responses received by the check that ran last
    faults,      \* per finished check: did one of its backend calls fail
    slo_checks,  \* the results of the checks run so far, in call order
    results,     \* the results dict of verify_all_slos
    returned,    \* what main got back: <<>> or <<report>>
    exit_code    \* the process exit status, -1 while running

vars == <<pc, argv, self, last_call, faults, slo_checks, results, returned, exit_code>>

(* ------------------------------ bounds --------------------------------- *)

\* most datapoints in one backend response
MaxLen == 2
\* datapoint timestamps are 1..MaxTime
MaxTime == 2

(* ------------------------------ numbers -------------------------------- *)

Rat(n, d) == <<n, d>>

None == <<>>

RatLE(a, b) == a[1] * b[2] <= b[1] * a[2]

RatGE(a, b) == RatLE(b, a)

RatEq(a, b) == a[1] * b[2] = b[1] * a[2]

RatTimes(a, k) == <<a[1] * k, a[2]>>

(* ------------------------------ inputs --------------------------------- *)

\* command lines: the three accepted environments, one outside the choices,
\* a missing --environment, and -h
Choices == {"dev", "staging", "prod"}

ArgvSet == Choices \cup {"qa", "", "-h"}

\* 'Average' values of the SuccessPercent metric, in percent
AvailabilityValues == {Rat(98, 1), Rat(9995, 100), Rat(9999, 100)}

\* 'p95' values of TargetResponseTime, in seconds
LatencyValues == {Rat(6, 10), Rat(1, 2), Rat(1, 10)}

\* 'Sum' values of the three HTTPCode_Target_*_Count series
Sum2xxValues == {485, 999}

Sum4xxValues == {1, 10}

Sum5xxValues == {0, 10}

SeqsUpTo(S, n) == UNION {[1..k -> S] : k \in 0..n}

StatDatapoints(V) == [Timestamp : 1..MaxTime, Stat : V]

SumDatapoints(V) == [Sum : V]

Raise == [kind |-> "raise", Datapoints |-> <<>>]

Malformed == [kind |-> "malformed", Datapoints |-> <<>>]

Ok(dps) == [kind |-> "ok", Datapoints |-> dps]

\* every outcome of one get_metric_statistics call over datapoints D
Responses(D) == {Raise, Malformed} \cup {Ok(dps) : dps \in SeqsUpTo(D, MaxLen)}

(* ---------------------------- SLOVerifier ------------------------------ *)

slo_thresholds ==
    [availability |-> Rat(9995, 100), latency_p95 |-> Rat(500, 1), error_rate |-> Rat(1, 10)]

Result(metric, status, value, threshold, compliant) ==
    [metric |-> metric, status |-> status, value |-> value,
     threshold |-> threshold, compliant |-> compliant]

\* a call that makes the check take its except branch
Faulty(response) == response.kind # "ok"

\* faulty variant: the last datapoint returned, whatever its timestamp
LatestDatapoint_LastReturned(dps) == dps[Len(dps)]

\* max(datapoints, key=Timestamp): the first datapoint among those with the
\* greatest timestamp
LatestDatapoint(dps) ==
    LET best == CHOOSE i \in 1..Len(dps) :
                    /\ \A j \in 1..Len(dps) : dps[j].Timestamp <= dps[i].Timestamp
                    /\ \A j \in 1..(i - 1) : dps[j].Timestamp < dps[i].Timestamp
    IN dps[best]

\* faulty variant: an empty result counted as compliant
verify_availability_slo_EmptyCompliant(response) ==
    LET threshold == slo_thresholds.availability IN
    IF Faulty(response)
    THEN Result("availability", "ERROR", None, threshold, FALSE)
    ELSE IF response.Datapoints = <<>>
    THEN Result("availability", "NO_DATA", None, threshold, TRUE)
    ELSE LET availability == LatestDatapoint(response.Datapoints).Stat
             compliant == RatGE(availability, threshold)
         IN Result("availability", IF compliant THEN "SUCCESS" ELSE "VIOLATION",
                   availability, threshold, compliant)

verify_availability_slo(response) ==
    LET threshold == slo_thresholds.availability IN
    IF Faulty(response)
    THEN Result("availability", "ERROR", None, threshold, FALSE)
    ELSE IF response.Datapoints = <<>>
    THEN Result("availability", "NO_DATA", None, threshold, FALSE)
    ELSE LET availability == LatestDatapoint(response.Datapoints).Stat
             compliant == RatGE(availability, threshold)
         IN Result("availability", IF compliant THEN "SUCCESS" ELSE "VIOLATION",
                   availability, threshold, compliant)

\* faulty variant: a failed call reported like an empty result
verify_latency_slo_FaultAsNoData(response) ==
    LET threshold == slo_thresholds.latency_p95 IN
    IF Faulty(response) \/ response.Datapoints = <<>>
    THEN Result("latency", "NO_DATA", None, threshold, FALSE)
    ELSE LET latency_ms == RatTimes(LatestDatapoint(response.Datapoints).Stat, 1000)
             compliant == RatLE(latency_ms, threshold)
         IN Result("latency", IF compliant THEN "SUCCESS" ELSE "VIOLATION",
                   latency_ms, threshold, compliant)

verify_latency_slo(response) ==
    LET threshold == slo_thresholds.latency_p95 IN
    IF Faulty(response)
    THEN Result("latency", "ERROR", None, threshold, FALSE)
    ELSE IF response.Datapoints = <<>>
    THEN Result("latency", "NO_DATA", None, threshold, FALSE)
    ELSE LET latency_ms == RatTimes(LatestDatapoint(response.Datapoints).Stat, 1000)
             compliant == RatLE(latency_ms, threshold)
         IN Result("latency", IF compliant THEN "SUCCESS" ELSE "VIOLATION",
                   latency_ms, threshold, compliant)

RECURSIVE SumOf(_)
\* sum([dp['Sum'] for dp in datapoints])
SumOf(dps) == IF dps = <<>> THEN 0 ELSE dps[1].Sum + SumOf(Tail(dps))

\* the error-rate check with the zero-total guard and the comparison as
\* parameters, for the two faulty variants below
ErrorRateVariant(calls, guarded, strict) ==
    LET threshold == slo_thresholds.error_rate IN
    IF \E i \in 1..Len(calls) : Faulty(calls[i])
    THEN Result("error_rate", "ERROR", None, threshold, FALSE)
    ELSE LET success_count == SumOf(calls[1].Datapoints)
             error4xx_count == SumOf(calls[2].Datapoints)
             error5xx_count == SumOf(calls[3].Datapoints)
             total_requests == success_count + error4xx_count + error5xx_count
             error_requests == error4xx_count + error5xx_count
         IN IF total_requests = 0
            THEN IF guarded
                 THEN Result("error_rate", "NO_DATA", None, threshold, FALSE)
                 ELSE Result("error_rate", "ERROR", None, threshold, FALSE)
            ELSE LET error_rate == Rat(error_requests * 100, total_requests)
                     compliant == IF strict
                                  THEN ~RatLE(threshold, error_rate)
                                  ELSE RatLE(error_rate, threshold)
                 IN Result("error_rate", IF compliant THEN "SUCCESS" ELSE "VIOLATION",
                           error_rate, threshold, compliant)

\* faulty variant: no guard on a zero total, so the division raises and the except
\* branch answers
verify_error_rate_slo_NoZeroGuard(calls) == ErrorRateVariant(calls, FALSE, FALSE)

\* faulty variant: error_rate < threshold instead of <=
verify_error_rate_slo_Strict(calls) == ErrorRateVariant(calls, TRUE, TRUE)

\* calls is the sequence of responses the check received: three, or fewer
\* when a call raised (the remaining calls are then never made)
verify_error_rate_slo(calls) ==
    LET threshold == slo_thresholds.error_rate IN
    IF \E i \in 1..Len(calls) : Faulty(calls[i])
    THEN Result("error_rate", "ERROR", None, threshold, FALSE)
    ELSE LET success_count == SumOf(calls[1].Datapoints)
             error4xx_count == SumOf(calls[2].Datapoints)
             error5xx_count == SumOf(calls[3].Datapoints)
             total_requests == success_count + error4xx_count + error5xx_count
             error_requests == error4xx_count + error5xx_count
         IN IF total_requests = 0
            THEN Result("error_rate", "NO_DATA", None, threshold, FALSE)
            ELSE LET error_rate == Rat(error_requests * 100, total_requests)
                     compliant == RatLE(error_rate, threshold)
                 IN Result("error_rate", IF compliant THEN "SUCCESS" ELSE "VIOLATION",
                           error_rate, threshold, compliant)

NewReport(environment) ==
    [environment |-> environment, slos |-> <<>>, overall_compliant |-> TRUE,
     violations |-> <<>>]

\* faulty variant: only a VIOLATION clears overall_compliant
TrackCompliance_OnlyViolationFails(report, slo_result) ==
    LET appended == [report EXCEPT !.slos = Append(@, slo_result)] IN
    IF slo_result.status = "VIOLATION"
    THEN [appended EXCEPT
            !.overall_compliant = FALSE,
            !.violations = Append(@, slo_result.metric)]
    ELSE appended

\* faulty variant: every non-compliant metric is listed in violations
TrackCompliance_ListsEveryFailure(report, slo_result) ==
    LET appended == [report EXCEPT !.slos = Append(@, slo_result)] IN
    IF ~slo_result.compliant
    THEN [appended EXCEPT
            !.overall_compliant = FALSE,
            !.violations = Append(@, slo_result.metric)]
    ELSE appended

\* faulty variant: violations built by inserting at the front
TrackCompliance_Prepends(report, slo_result) ==
    LET appended == [report EXCEPT !.slos = Append(@, slo_result)] IN
    IF ~slo_result.compliant
    THEN [appended EXCEPT
            !.overall_compliant = FALSE,
            !.violations = IF slo_result.status = "VIOLATION"
                           THEN <<slo_result.metric>> \o @ ELSE @]
    ELSE appended

\* one iteration of the loop over slo_checks
TrackCompliance(report, slo_result) ==
    LET appended == [report EXCEPT !.slos = Append(@, slo_result)] IN
    IF ~slo_result.compliant
    THEN [appended EXCEPT
            !.overall_compliant = FALSE,
            !.violations = IF slo_result.status = "VIOLATION"
                           THEN Append(@, slo_result.metric) ELSE @]
    ELSE appended

RECURSIVE ForEach(_, _)
ForEach(report, checks) ==
    IF checks = <<>> THEN report
    ELSE ForEach(TrackCompliance(report, Head(checks)), Tail(checks))

\* faulty variant: exit 1 only when the violations list is not empty
ExitStatus_ViolationsOnly(report) == IF report.violations # <<>> THEN 1 ELSE 0

\* the exit status main passes to sys.exit
ExitStatus(report) == IF ~report.overall_compliant THEN 1 ELSE 0

(* ------------------------------- steps --------------------------------- *)

Init ==
    /\ pc = "main"
    /\ argv \in ArgvSet
    /\ self = ""
    /\ last_call = <<>>
    /\ faults = <<>>
    /\ slo_checks = <<>>
    /\ results = NewReport("")
    /\ returned = <<>>
    /\ exit_code = -1

\* parser.parse_args(): a usage error exits with 2, -h prints help and exits 0
ParseArgs ==
    /\ pc = "main"
    /\ IF argv \in Choices
       THEN /\ pc' = "construct"
            /\ UNCHANGED exit_code
       ELSE /\ pc' = "exited"
            /\ exit_code' = IF argv = "-h" THEN 0 ELSE 2
    /\ UNCHANGED <<argv, self, last_call, faults, slo_checks, results, returned>>

\* SLOVerifier(args.environment, args.region): main does not catch what
\* creating the clients raises, and the interpreter then exits with 1
Construct ==
    /\ pc = "construct"
    /\ \E client_ok \in BOOLEAN :
         IF client_ok
         THEN /\ self' = argv
              /\ pc' = "verify_all"
              /\ UNCHANGED exit_code
         ELSE /\ pc' = "exited"
              /\ exit_code' = 1
              /\ UNCHANGED self
    /\ UNCHANGED <<argv, last_call, faults, slo_checks, results, returned>>

\* verify_all_slos up to the creation of the results dict
BeginVerifyAll ==
    /\ pc = "verify_all"
    /\ results' = NewReport(self)
    /\ pc' = "availability"
    /\ UNCHANGED <<argv, self, last_call, faults, slo_checks, returned, exit_code>>

VerifyAvailability ==
    /\ pc = "availability"
    /\ \E response \in Responses(StatDatapoints(AvailabilityValues)) :
         /\ last_call' = <<response>>
         /\ faults' = Append(faults, Faulty(response))
         /\ slo_checks' = Append(slo_checks, verify_availability_slo(response))
    /\ pc' = "latency"
    /\ UNCHANGED <<argv, self, results, returned, exit_code>>

VerifyLatency ==
    /\ pc = "latency"
    /\ \E response \in Responses(StatDatapoints(LatencyValues)) :
         /\ last_call' = <<response>>
         /\ faults' = Append(faults, Faulty(response))
         /\ slo_checks' = Append(slo_checks, verify_latency_slo(response))
    /\ pc' = "error_rate"
    /\ UNCHANGED <<argv, self, results, returned, exit_code>>

\* One get_metric_statistics call of verify_error_rate_slo.  A call that
\* raises ends the check in its except branch; the third call is followed by
\* the computation and the return.
ErrorRateCall(at, next, values) ==
    /\ pc = at
    /\ \E response \in Responses(SumDatapoints(values)) :
         LET calls == IF at = "error_rate" THEN <<response>>
                      ELSE Append(last_call, response)
         IN /\ last_call' = calls
            /\ IF response = Raise \/ next = "aggregate"
               THEN /\ faults' = Append(faults, \E i \in 1..Len(calls) : Faulty(calls[i]))
                    /\ slo_checks' = Append(slo_checks, verify_error_rate_slo(calls))
                    /\ pc' = "aggregate"
               ELSE /\ pc' = next
                    /\ UNCHANGED <<faults, slo_checks>>
    /\ UNCHANGED <<argv, self, results, returned, exit_code>>

GetSuccessCount == ErrorRateCall("error_rate", "error_rate_4xx", Sum2xxValues)

GetError4xxCount == ErrorRateCall("error_rate_4xx", "error_rate_5xx", Sum4xxValues)

GetError5xxCount == ErrorRateCall("error_rate_5xx", "aggregate", Sum5xxValues)

\* the loop over slo_checks and the return to main; last_call, the responses
\* held by the locals of the check that ran last, is dropped
Aggregate ==
    /\ pc = "aggregate"
    /\ results' = ForEach(results, slo_checks)
    /\ returned' = <<results'>>
    /\ last_call' = <<>>
    /\ pc' = "exit"
    /\ UNCHANGED <<argv, self, faults, slo_checks, exit_code>>

Exit ==
    /\ pc = "exit"
    /\ exit_code' = ExitStatus(returned[1])
    /\ pc' = "exited"
    /\ UNCHANGED <<argv, self, last_call, faults, slo_checks, results, returned>>

Next ==
    \/ ParseArgs
    \/ Construct
    \/ BeginVerifyAll
    \/ VerifyAvailability
    \/ VerifyLatency
    \/ GetSuccessCount
    \/ GetError4xxCount
    \/ GetError5xxCount
    \/ Aggregate
    \/ Exit

Spec == Init /\ [][Next]_vars

(* ------------------------------ claims --------------------------------- *)

Metrics == <<"availability", "latency", "error_rate">>

Statuses(checks) == [i \in 1..Len(checks) |-> checks[i].status]

\* the availability check has just returned; last_call holds its response
AfterAvailability == pc = "latency"

\* the latency check has just returned
AfterLatency == pc = "error_rate"

\* the error-rate check has just returned
AfterErrorRate == pc = "aggregate"

\* verify_all_slos has returned its report to main
Reported == returned # <<>>

\* C1: every result a check returns has compliant true exactly when its
\* status is SUCCESS, whatever the backend did (datapoints, nothing, a
\* failure).
CompliantIffSuccess ==
    \A i \in 1..Len(slo_checks) :
        /\ slo_checks[i].status \in {"SUCCESS", "VIOLATION", "ERROR", "NO_DATA"}
        /\ slo_checks[i].compliant <=> (slo_checks[i].status = "SUCCESS")

CompliantIffSuccessWitness ==
    /\ AfterErrorRate
    /\ Statuses(slo_checks) = <<"NO_DATA", "ERROR", "SUCCESS">>
    /\ slo_checks[3].compliant
    /\ ~slo_checks[1].compliant

\* C2: in the report, overall_compliant is the conjunction of the compliant
\* flags of the three results.
OverallIsConjunction ==
    Reported =>
        /\ returned[1].slos = slo_checks
        /\ returned[1].overall_compliant
             <=> (\A i \in 1..Len(slo_checks) : slo_checks[i].compliant)

\* a report that is non-compliant without any VIOLATION
OverallIsConjunctionWitness ==
    /\ Reported
    /\ Statuses(returned[1].slos) = <<"SUCCESS", "NO_DATA", "SUCCESS">>
    /\ ~returned[1].overall_compliant

\* C3: the violations list names a metric exactly when that metric's result
\* has status VIOLATION; NO_DATA and ERROR results are not listed.
ViolationsAreViolationStatuses ==
    Reported =>
        \A m \in {Metrics[k] : k \in 1..3} :
            (\E j \in 1..Len(returned[1].violations) : returned[1].violations[j] = m)
              <=> (\E i \in 1..Len(slo_checks) :
                      slo_checks[i].metric = m /\ slo_checks[i].status = "VIOLATION")

ViolationsAreViolationStatusesWitness ==
    /\ Reported
    /\ Statuses(returned[1].slos) = <<"NO_DATA", "VIOLATION", "ERROR">>
    /\ returned[1].violations = <<"latency">>
    /\ ~returned[1].overall_compliant

\* C4 as stated: the process ends with 0 when the report is compliant and
\* with 1 otherwise, and with no other code.
ExitCodeZeroOrOne ==
    pc = "exited" =>
        /\ exit_code \in {0, 1}
        /\ Reported
        /\ exit_code = (IF returned[1].overall_compliant THEN 0 ELSE 1)

\* C4 amended: once verify_all_slos has returned a report the exit code is 0
\* when overall_compliant is true and 1 otherwise; without a report the
\* process ends with 2 on a command line the parser rejects, 0 on -h, and 1
\* when creating the clients raises.
ExitCodeFollowsReport ==
    pc = "exited" =>
        IF Reported
        THEN exit_code = (IF returned[1].overall_compliant THEN 0 ELSE 1)
        ELSE exit_code = (IF argv \in Choices THEN 1 ELSE IF argv = "-h" THEN 0 ELSE 2)

\* a run that exits 1 although no result is a VIOLATION
ExitCodeFollowsReportWitness ==
    /\ pc = "exited"
    /\ Reported
    /\ Statuses(slo_checks) = <<"SUCCESS", "SUCCESS", "ERROR">>
    /\ exit_code = 1

\* C5: a check whose backend call fails ends with status ERROR, compliant
\* false and no value; a check whose own calls did not fail never ends ERROR,
\* whichever other checks failed; and all three checks run and the report is
\* returned whatever failed.
FailureIsolatedPerCheck ==
    /\ Len(faults) = Len(slo_checks)
    /\ \A i \in 1..Len(slo_checks) :
          IF faults[i]
          THEN /\ slo_checks[i].status = "ERROR"
               /\ ~slo_checks[i].compliant
               /\ slo_checks[i].value = None
          ELSE slo_checks[i].status \in {"SUCCESS", "VIOLATION", "NO_DATA"}
    /\ pc \in {"aggregate", "exit"} => Len(slo_checks) = 3
    /\ (pc = "exited" /\ self # "") => (Reported /\ Len(returned[1].slos) = 3)

\* the latency check failed between two checks that succeeded
FailureIsolatedPerCheckWitness ==
    /\ pc = "exited"
    /\ faults = <<FALSE, TRUE, FALSE>>
    /\ Statuses(returned[1].slos) = <<"SUCCESS", "ERROR", "SUCCESS">>

NoDataResult(r) == r.status = "NO_DATA" /\ ~r.compliant /\ r.value = None

AllEmpty(calls) == \A i \in 1..Len(calls) : calls[i] = Ok(<<>>)

\* C6: a check whose every backend query returns no datapoints ends with
\* status NO_DATA, compliant false and no value.
EmptyGivesNoData ==
    /\ (AfterAvailability /\ AllEmpty(last_call)) => NoDataResult(slo_checks[1])
    /\ (AfterLatency /\ AllEmpty(last_call)) => NoDataResult(slo_checks[2])
    /\ (AfterErrorRate /\ Len(last_call) = 3 /\ AllEmpty(last_call))
          => NoDataResult(slo_checks[3])

EmptyGivesNoDataWitness ==
    /\ AfterErrorRate
    /\ last_call = <<Ok(<<>>), Ok(<<>>), Ok(<<>>)>>
    /\ Statuses(slo_checks) = <<"NO_DATA", "NO_DATA", "NO_DATA">>

\* the sum of a count series over the window
SeriesTotal(dps) ==
    LET partial[k \in 0..Len(dps)] == IF k = 0 THEN 0 ELSE partial[k - 1] + dps[k].Sum
    IN partial[Len(dps)]

\* C7: the error-rate check sums the three count series; a zero total gives
\* NO_DATA, otherwise the value is 100 * (4xx + 5xx) / total, SUCCESS exactly
\* when that is at most 0.1 (that is, 1000 * errors <= total), else VIOLATION.
ErrorRateFormula ==
    (AfterErrorRate /\ ~faults[3]) =>
        LET c2 == SeriesTotal(last_call[1].Datapoints)
            c4 == SeriesTotal(last_call[2].Datapoints)
            c5 == SeriesTotal(last_call[3].Datapoints)
            total == c2 + c4 + c5
            r == slo_checks[3]
        IN IF total = 0
           THEN NoDataResult(r)
           ELSE /\ r.value # None
                /\ r.value[2] > 0
                /\ r.value[1] * total = 100 * (c4 + c5) * r.value[2]
                /\ r.status = (IF 1000 * (c4 + c5) <= total THEN "SUCCESS" ELSE "VIOLATION")
                /\ (c2 = 970 /\ c4 = 20 /\ c5 = 10)
                      => (RatEq(r.value, Rat(3, 1)) /\ r.status = "VIOLATION")

\* 2xx=970, 4xx=20, 5xx=10, each summed over two datapoints: 3.0 percent
ErrorRateFormulaWitness ==
    /\ AfterErrorRate
    /\ last_call = <<Ok(<<[Sum |-> 485], [Sum |-> 485]>>),
                     Ok(<<[Sum |-> 10], [Sum |-> 10]>>),
                     Ok(<<[Sum |-> 10]>>)>>
    /\ slo_checks[3].status = "VIOLATION"
    /\ RatEq(slo_checks[3].value, Rat(3, 1))

\* r is the result for a datapoint with the latest timestamp of dps, after
\* scaling its statistic by scale, judged against the limit
FromLatest(r, dps, scale, ok(_)) ==
    \E i \in 1..Len(dps) :
        /\ \A j \in 1..Len(dps) : dps[j].Timestamp <= dps[i].Timestamp
        /\ r.value # None
        /\ r.value[1] * dps[i].Stat[2] = scale * dps[i].Stat[1] * r.value[2]
        /\ r.status = (IF ok(r.value) THEN "SUCCESS" ELSE "VIOLATION")

AtLeast9995(v) == v[1] * 100 >= 9995 * v[2]

AtMost500(v) == v[1] <= 500 * v[2]

\* C8: on a non-empty result the availability and latency checks report the
\* statistic of a datapoint with the latest timestamp (latency times 1000),
\* SUCCESS exactly when it is >= 99.95, respectively <= 500, else VIOLATION.
LatestDatapointDecides ==
    /\ (AfterAvailability /\ ~faults[1] /\ last_call[1].Datapoints # <<>>)
          => FromLatest(slo_checks[1], last_call[1].Datapoints, 1, AtLeast9995)
    /\ (AfterLatency /\ ~faults[2] /\ last_call[1].Datapoints # <<>>)
          => FromLatest(slo_checks[2], last_call[1].Datapoints, 1000, AtMost500)

\* an early 0.1 s datapoint does not hide the latest, 0.6 s: 600 ms, VIOLATION
LatestDatapointDecidesWitness ==
    /\ AfterLatency
    /\ last_call = <<Ok(<<[Timestamp |-> 2, Stat |-> Rat(6, 10)],
                          [Timestamp |-> 1, Stat |-> Rat(1, 10)]>>)>>
    /\ slo_checks[2].status = "VIOLATION"
    /\ RatEq(slo_checks[2].value, Rat(600, 1))
    /\ slo_checks[1].status = "SUCCESS"
    /\ RatEq(slo_checks[1].value, Rat(9999, 100))

\* C9: the checks run and are reported in the order availability, latency,
\* error_rate: the results so far are always a prefix of that order, the
\* report has exactly the three, and violations lists the metrics whose
\* status is VIOLATION in that same order.
ReportInCheckOrder ==
    /\ Len(slo_checks) <= 3
    /\ \A i \in 1..Len(slo_checks) : slo_checks[i].metric = Metrics[i]
    /\ Reported =>
          /\ Len(returned[1].slos) = 3
          /\ \A i \in 1..3 : returned[1].slos[i].metric = Metrics[i]
          /\ returned[1].violations
               = SelectSeq(Metrics, LAMBDA m :
                    \E i \in 1..3 : /\ returned[1].slos[i].metric = m
                                    /\ returned[1].slos[i].status = "VIOLATION")

ReportInCheckOrderWitness ==
    /\ Reported
    /\ Statuses(returned[1].slos) = <<"VIOLATION", "SUCCESS", "VIOLATION">>
    /\ returned[1].violations = <<"availability", "error_rate">>

\* dps in every order
Reorderings(dps) ==
    {[i \in 1..Len(dps) |-> dps[f[i]]] : f \in Permutations(1..Len(dps))}

\* C10: the availability and latency results do not depend on the order in
\* which the backend returns the datapoints, ties on the latest timestamp
\* included.
OrderIndependent ==
    /\ (AfterAvailability /\ ~faults[1])
          => \A dps \in Reorderings(last_call[1].Datapoints) :
                verify_availability_slo(Ok(dps)) = slo_checks[1]
    /\ (AfterLatency /\ ~faults[2])
          => \A dps \in Reorderings(last_call[1].Datapoints) :
                verify_latency_slo(Ok(dps)) = slo_checks[2]

====
